---------------------------- MODULE Spec2Model ----------------------------
(***************************************************************************)
(* Model of solexa_reads_filter.py: the FASTQ record reader (parse_fastq), *)
(* the paired filter pipeline (solexa_reads_filter), the filter predicates *)
(* (is_s35_bad, is_ns, is_polyn) and main's output loop.                   *)
(*                                                                         *)
(* Text is modelled as sequences of character codes (Python 2 str), so     *)
(* ord(c) is the element itself.  Python truth values that may instead be  *)
(* an exception are the strings "True", "False", "AssertionError" and      *)
(* "ZeroDivisionError".                                                    *)
(***************************************************************************)
EXTENDS Integers, Sequences, FiniteSets, TLC

(* ------------------------------ bounds -------------------------------- *)

\* Longest input file, in lines (two whole records and a partial group).
MaxLines == 8
\* Longest quality string given to is_s35_bad on its own.
MaxQuaLen == 36
\* Longest sequence given to is_polyn on its own.
MaxSeqLen == 20

(* ------------------------- program constants -------------------------- *)

chA == 65
chT == 84
chC == 67
chG == 71
chN == 78
chNL == 10
S35Window == 35
S35MinQ30 == 25
Q30 == 30
\* threshold=0.85, as the fraction ThresholdNum / ThresholdDen
ThresholdNum == 85
ThresholdDen == 100
\* characters str.strip() removes: \t \n \v \f \r and space
Whitespace == {9, 10, 11, 12, 13, 32}
\* assert quafmt in [33, 64]; argparse choices=[33, 64]
ValidQuaFmts == {33, 64}

(* ------------------------------ text ---------------------------------- *)

Run(c, k) == [i \in 1..k |-> c]

RECURSIVE LStrip(_)
LStrip(s) ==
    IF s # <<>> /\ Head(s) \in Whitespace THEN LStrip(Tail(s)) ELSE s

RECURSIVE RStrip(_)
RStrip(s) ==
    IF s # <<>> /\ s[Len(s)] \in Whitespace
    THEN RStrip(SubSeq(s, 1, Len(s) - 1))
    ELSE s

\* i.strip()
Strip(s) == RStrip(LStrip(s))

\* seq.count(c)
RECURSIVE Count(_, _)
Count(s, c) ==
    IF s = <<>> THEN 0
    ELSE (IF Head(s) = c THEN 1 ELSE 0) + Count(Tail(s), c)

\* '\n'.join(r)
Join(r) == r[1] \o <<chNL>> \o r[2] \o <<chNL>> \o r[3] \o <<chNL>> \o r[4]

(* ------------------------- filter predicates -------------------------- *)

Raised == {"AssertionError", "ZeroDivisionError"}

PyBool(b) == IF b THEN "True" ELSE "False"

\* a or b, b evaluated only when a is false; an exception in a propagates
PyOr(a, b) == IF a \in Raised THEN a ELSE IF a = "True" THEN "True" ELSE b

\* flag and x, for a plain boolean flag
PyAnd(flag, x) == IF flag THEN x ELSE "False"

\* the loop of is_s35_bad: q30 after positions i..S35Window
RECURSIVE CountQ30(_, _, _)
CountQ30(qua, quafmt, i) ==
    IF i > S35Window THEN 0
    ELSE (IF qua[i] - quafmt >= Q30 THEN 1 ELSE 0) + CountQ30(qua, quafmt, i + 1)

RECURSIVE CountQ30_strict(_, _, _)
CountQ30_strict(qua, quafmt, i) ==
    IF i > S35Window THEN 0
    ELSE (IF qua[i] - quafmt > Q30 THEN 1 ELSE 0)
         + CountQ30_strict(qua, quafmt, i + 1)

is_s35_bad_strict(qua, quafmt) ==
    IF quafmt \notin ValidQuaFmts THEN "AssertionError"
    ELSE IF Len(qua) < S35Window THEN "True"
    ELSE PyBool(CountQ30_strict(qua, quafmt, 1) < S35MinQ30)

is_s35_bad(qua, quafmt) ==
    IF quafmt \notin ValidQuaFmts THEN "AssertionError"
    ELSE IF Len(qua) < S35Window THEN "True"
    ELSE PyBool(CountQ30(qua, quafmt, 1) < S35MinQ30)

is_ns(seq) == PyBool(Count(seq, chN) > 0)

\* float(count) / length >= threshold.  Both the quotient and the literal
\* 0.85 are correctly rounded doubles, so for lengths below 2^31 the
\* comparison agrees with the exact one on count/length and 85/100.
FracAtLeast(count, length) == count * ThresholdDen >= ThresholdNum * length

is_polyn_exclusive(seq) ==
    IF Len(seq) = 0 THEN "ZeroDivisionError"
    ELSE IF Count(seq, chA) * ThresholdDen > ThresholdNum * Len(seq) THEN "True"
    ELSE IF Count(seq, chT) * ThresholdDen > ThresholdNum * Len(seq) THEN "True"
    ELSE IF Count(seq, chC) * ThresholdDen > ThresholdNum * Len(seq) THEN "True"
    ELSE IF Count(seq, chG) * ThresholdDen > ThresholdNum * Len(seq) THEN "True"
    ELSE "False"

is_polyn(seq) ==
    IF Len(seq) = 0 THEN "ZeroDivisionError"
    ELSE IF FracAtLeast(Count(seq, chA), Len(seq)) THEN "True"
    ELSE IF FracAtLeast(Count(seq, chT), Len(seq)) THEN "True"
    ELSE IF FracAtLeast(Count(seq, chC), Len(seq)) THEN "True"
    ELSE IF FracAtLeast(Count(seq, chG), Len(seq)) THEN "True"
    ELSE "False"

(* ------------------------------ inputs -------------------------------- *)

Line(text) == text \o <<chNL>>

\* Quality strings: 35 high characters ('h'), and 24 high characters followed
\* by 11 'I', which decode to 40 under offset 33 and to 9 under offset 64.
QuaHigh == Run(104, 35)
QuaEdge == Run(104, 24) \o Run(73, 11)

\* The four raw lines of the records an input file may hold, as the file
\* iterator returns them (line terminator included).
RawGood  == << Line(<<64, 49>>), Line(<<chA, chC, chG, chT>>), Line(<<43>>), Line(QuaHigh) >>
RawN     == << Line(<<64, 50>>), Line(<<chA, chC, chN, chT>>), Line(<<43>>), Line(QuaEdge) >>
RawPolyA == << Line(<<64, 51>>), <<32, chA, 32, chNL>>, Line(<<43>>), Line(QuaHigh) >>
RawEmpty == << Line(<<64, 52>>), Line(<<>>), Line(<<43>>), Line(<<>>) >>

RawPool == {RawGood, RawN, RawPolyA, RawEmpty}

QuaFmts == {33, 64, 50}
MinLens == {0, 1, 2}

(* ------------------------------- state -------------------------------- *)

VARIABLES
    quafmt, min_len, s35, ns, polyn, merge,   \* the arguments
    flen,            \* flen[i]: number of lines of input file i
    rd,              \* rd[i]: the parse_fastq generator of input file i
    cur,             \* the pair (r1, r2) of the running loop iteration
    pulled,          \* the pairs izip has returned so far
    emitted,         \* the pairs solexa_reads_filter has yielded so far
    n_total_seq, n_total_base,
    n_mlen_drop_seq, n_mlen_drop_base,
    n_s35_drop_seq, n_s35_drop_base,
    n_ns_drop_seq, n_ns_drop_base,
    n_polyn_drop_seq, n_polyn_drop_base,
    report,          \* <<n_retained_seq, n_retained_base>> once logged
    pc, err,         \* control point; the exception that ended the run
    buf, disk,       \* per output file: buffered text, text in the file
    call, ret        \* a filter predicate applied on its own

cfgVars == <<quafmt, min_len, s35, ns, polyn, merge, flen>>
totalVars == <<n_total_seq, n_total_base>>
dropVars == <<n_mlen_drop_seq, n_mlen_drop_base, n_s35_drop_seq, n_s35_drop_base,
              n_ns_drop_seq, n_ns_drop_base, n_polyn_drop_seq, n_polyn_drop_base>>
fileVars == <<buf, disk>>
fnVars == <<call, ret>>
vars == <<cfgVars, rd, cur, pulled, emitted, totalVars, dropVars, report,
          pc, err, fileVars, fnVars>>

NoFiles == [f \in {} |-> <<>>]
NoCall == <<>>

(* --------------------------- Record Reader ---------------------------- *)

\* A parse_fastq generator before its first next(): n = 0, nothing read.
NewReader == [n |-> 0, fpos |-> 0, at |-> "new"]

\* The for loop of parse_fastq from the top of an iteration: n is the line
\* counter, fpos the lines already taken from the file of len lines, raw the
\* lines the file returns next, rec the fields assigned so far.
RECURSIVE fastq_loop(_, _, _, _, _)
fastq_loop(n, fpos, len, raw, rec) ==
    IF fpos >= len
    THEN [rd |-> [n |-> n, fpos |-> fpos, at |-> "closed"], stop |-> TRUE, rec |-> <<>>]
    ELSE LET t == n % 4
             i == Strip(raw[t + 1])
         IN  IF t = 3
             THEN [rd |-> [n |-> n, fpos |-> fpos + 1, at |-> "yield"],
                   stop |-> FALSE, rec |-> Append(rec, i)]
             ELSE fastq_loop(n + 1, fpos + 1, len, raw, Append(rec, i))

\* next() on a parse_fastq generator: a generator suspended at its yield
\* first runs n += 1; a finished one raises StopIteration again.
parse_fastq_next(r, len, raw) ==
    IF r.at = "closed" THEN [rd |-> r, stop |-> TRUE, rec |-> <<>>]
    ELSE IF r.at = "yield" THEN fastq_loop(r.n + 1, r.fpos, len, raw, <<>>)
    ELSE fastq_loop(r.n, r.fpos, len, raw, <<>>)

(* -------------------------- Pair Synchronizer ------------------------- *)

\* izip's next() given what next() on each iterator returns: the first
\* iterator is advanced first, and the second only when the first returned a
\* record.
izip_results(a, b) ==
    IF a.stop
    THEN [rd |-> [rd EXCEPT ![1] = a.rd], stop |-> TRUE, pair |-> <<>>]
    ELSE [rd |-> [rd EXCEPT ![1] = a.rd, ![2] = b.rd],
          stop |-> b.stop,
          pair |-> IF b.stop THEN <<>> ELSE <<a.rec, b.rec>>]

izip_next(raw1, raw2) ==
    izip_results(parse_fastq_next(rd[1], flen[1], raw1),
                 parse_fastq_next(rd[2], flen[2], raw2))

(* --------------------------- Filter Pipeline -------------------------- *)

seq_1 == cur[1][2]
seq_2 == cur[2][2]
qua_1 == cur[1][4]
qua_2 == cur[2][4]
PairBases == Len(seq_1) + Len(seq_2)

\* The conditions of the four if statements of the loop body, in order.
len_test == Len(seq_1) < min_len \/ Len(seq_2) < min_len
s35_test == PyAnd(s35, PyOr(is_s35_bad(qua_1, quafmt), is_s35_bad(qua_2, quafmt)))
ns_test == PyAnd(ns, PyOr(is_ns(seq_1), is_ns(seq_2)))
polyn_test == PyAnd(polyn, PyOr(is_polyn(seq_1), is_polyn(seq_2)))

\* The arguments of a call, and the state of the generator before its body
\* has run: every counter zero, both readers new.
Config ==
    /\ min_len \in MinLens
    /\ s35 \in BOOLEAN /\ ns \in BOOLEAN /\ polyn \in BOOLEAN
    /\ flen \in [1..2 -> 0..MaxLines]

ZeroCounters ==
    /\ n_total_seq = 0 /\ n_total_base = 0
    /\ n_mlen_drop_seq = 0 /\ n_mlen_drop_base = 0
    /\ n_s35_drop_seq = 0 /\ n_s35_drop_base = 0
    /\ n_ns_drop_seq = 0 /\ n_ns_drop_base = 0
    /\ n_polyn_drop_seq = 0 /\ n_polyn_drop_base = 0

FreshRun ==
    /\ ZeroCounters
    /\ rd = [i \in 1..2 |-> NewReader]
    /\ cur = <<>> /\ pulled = <<>> /\ emitted = <<>>
    /\ report = <<>> /\ err = "none"
    /\ buf = NoFiles /\ disk = NoFiles

Fresh == FreshRun /\ call = NoCall /\ ret = "none"

\* solexa_reads_filter called by any caller, with any arguments.
Init ==
    /\ Config /\ quafmt \in QuaFmts /\ merge = FALSE
    /\ Fresh
    /\ pc = "pull"

\* for r1, r2 in izip(...): a pair is returned and counted into the totals.
\* (The progress message of the loop only goes to the log and is left out.)
Pull ==
    /\ pc = "pull"
    /\ \E raw1 \in RawPool, raw2 \in RawPool :
          \E z \in {izip_next(raw1, raw2)} :
              /\ ~z.stop
              /\ rd' = z.rd
              /\ cur' = z.pair
              /\ pulled' = Append(pulled, z.pair)
              /\ n_total_seq' = n_total_seq + 2
              /\ n_total_base' = n_total_base + Len(z.pair[1][2]) + Len(z.pair[2][2])
    /\ pc' = "filter"
    /\ UNCHANGED <<cfgVars, emitted, dropVars, report, err, fileVars, fnVars>>

\* The length test without its continue: the later tests still run.
DropMlen_fallthrough ==
    /\ pc = "filter"
    /\ len_test
    /\ n_mlen_drop_seq' = n_mlen_drop_seq + 2
    /\ n_mlen_drop_base' = n_mlen_drop_base + PairBases
    /\ IF polyn_test = "True"
       THEN /\ n_polyn_drop_seq' = n_polyn_drop_seq + 2
            /\ n_polyn_drop_base' = n_polyn_drop_base + PairBases
       ELSE UNCHANGED <<n_polyn_drop_seq, n_polyn_drop_base>>
    /\ pc' = "pull"
    /\ UNCHANGED <<cfgVars, rd, cur, pulled, emitted, totalVars,
                   n_s35_drop_seq, n_s35_drop_base, n_ns_drop_seq, n_ns_drop_base,
                   report, err, fileVars, fnVars>>

DropMlen ==
    /\ pc = "filter"
    /\ len_test
    /\ n_mlen_drop_seq' = n_mlen_drop_seq + 2
    /\ n_mlen_drop_base' = n_mlen_drop_base + PairBases
    /\ pc' = "pull"
    /\ UNCHANGED <<cfgVars, rd, cur, pulled, emitted, totalVars,
                   n_s35_drop_seq, n_s35_drop_base, n_ns_drop_seq, n_ns_drop_base,
                   n_polyn_drop_seq, n_polyn_drop_base, report, err, fileVars, fnVars>>

DropS35 ==
    /\ pc = "filter"
    /\ ~len_test /\ s35_test = "True"
    /\ n_s35_drop_seq' = n_s35_drop_seq + 2
    /\ n_s35_drop_base' = n_s35_drop_base + PairBases
    /\ pc' = "pull"
    /\ UNCHANGED <<cfgVars, rd, cur, pulled, emitted, totalVars,
                   n_mlen_drop_seq, n_mlen_drop_base, n_ns_drop_seq, n_ns_drop_base,
                   n_polyn_drop_seq, n_polyn_drop_base, report, err, fileVars, fnVars>>

\* The Ns drop counting one read instead of two.
DropNs_one ==
    /\ pc = "filter"
    /\ ~len_test /\ s35_test = "False" /\ ns_test = "True"
    /\ n_ns_drop_seq' = n_ns_drop_seq + 1
    /\ n_ns_drop_base' = n_ns_drop_base + PairBases
    /\ pc' = "pull"
    /\ UNCHANGED <<cfgVars, rd, cur, pulled, emitted, totalVars,
                   n_mlen_drop_seq, n_mlen_drop_base, n_s35_drop_seq, n_s35_drop_base,
                   n_polyn_drop_seq, n_polyn_drop_base, report, err, fileVars, fnVars>>

DropNs ==
    /\ pc = "filter"
    /\ ~len_test /\ s35_test = "False" /\ ns_test = "True"
    /\ n_ns_drop_seq' = n_ns_drop_seq + 2
    /\ n_ns_drop_base' = n_ns_drop_base + PairBases
    /\ pc' = "pull"
    /\ UNCHANGED <<cfgVars, rd, cur, pulled, emitted, totalVars,
                   n_mlen_drop_seq, n_mlen_drop_base, n_s35_drop_seq, n_s35_drop_base,
                   n_polyn_drop_seq, n_polyn_drop_base, report, err, fileVars, fnVars>>

DropPolyn ==
    /\ pc = "filter"
    /\ ~len_test /\ s35_test = "False" /\ ns_test = "False" /\ polyn_test = "True"
    /\ n_polyn_drop_seq' = n_polyn_drop_seq + 2
    /\ n_polyn_drop_base' = n_polyn_drop_base + PairBases
    /\ pc' = "pull"
    /\ UNCHANGED <<cfgVars, rd, cur, pulled, emitted, totalVars,
                   n_mlen_drop_seq, n_mlen_drop_base, n_s35_drop_seq, n_s35_drop_base,
                   n_ns_drop_seq, n_ns_drop_base, report, err, fileVars, fnVars>>

\* The exception the loop body raises, and the call that raises it: the
\* assert of is_s35_bad, or the division of is_polyn.
FilterRaises ==
    IF len_test THEN "none"
    ELSE IF s35_test \in Raised THEN s35_test \o " in is_s35_bad"
    ELSE IF s35_test = "True" \/ ns_test = "True" THEN "none"
    ELSE IF polyn_test \in Raised THEN polyn_test \o " in is_polyn"
    ELSE "none"

Raise ==
    /\ pc = "filter"
    /\ FilterRaises # "none"
    /\ err' = FilterRaises
    /\ pc' = "error"
    /\ UNCHANGED <<cfgVars, rd, cur, pulled, emitted, totalVars, dropVars, report,
                   fileVars, fnVars>>

\* The yield with the two mates exchanged.
Yield_swapped(body) ==
    /\ pc = "filter"
    /\ ~len_test /\ s35_test = "False" /\ ns_test = "False" /\ polyn_test = "False"
    /\ emitted' = Append(emitted, <<cur[2], cur[1]>>)
    /\ pc' = body
    /\ UNCHANGED <<cfgVars, rd, cur, pulled, totalVars, dropVars, report, err,
                   fileVars, fnVars>>

\* yield r1, r2: the pair passed every test and goes to the caller, whose
\* loop body runs from control point body.
Yield(body) ==
    /\ pc = "filter"
    /\ ~len_test /\ s35_test = "False" /\ ns_test = "False" /\ polyn_test = "False"
    /\ emitted' = Append(emitted, cur)
    /\ pc' = body
    /\ UNCHANGED <<cfgVars, rd, cur, pulled, totalVars, dropVars, report, err,
                   fileVars, fnVars>>

\* A caller that only takes the pair and asks for the next one.
YieldPair == Yield("pull")

(* ---------------------------- Stats Reporter -------------------------- *)

n_retained_seq ==
    n_total_seq - n_mlen_drop_seq - n_s35_drop_seq - (n_ns_drop_seq + n_polyn_drop_seq)
n_retained_base ==
    n_total_base - n_mlen_drop_base - n_s35_drop_base - (n_ns_drop_base + n_polyn_drop_base)

\* The two percentages divide by n_total_seq and by n_total_base; the values
\* themselves only go to the log and are left out.
StatsRaises == n_total_seq = 0 \/ n_total_base = 0

\* izip raises StopIteration: the loop ends and the statistics are computed.
EndOfStream(raw1, raw2) ==
    /\ pc = "pull"
    /\ \E z \in {izip_next(raw1, raw2)} :
          /\ z.stop
          /\ rd' = z.rd

ReportStats ==
    /\ EndOfStream(RawGood, RawGood)
    /\ ~StatsRaises
    /\ report' = <<n_retained_seq, n_retained_base>>
    /\ pc' = "done"
    /\ UNCHANGED <<cfgVars, cur, pulled, emitted, totalVars, dropVars, err,
                   fileVars, fnVars>>

StatsRaise ==
    /\ EndOfStream(RawGood, RawGood)
    /\ StatsRaises
    /\ err' = "ZeroDivisionError in solexa_reads_filter"
    /\ pc' = "error"
    /\ UNCHANGED <<cfgVars, cur, pulled, emitted, totalVars, dropVars, report,
                   fileVars, fnVars>>

Next ==
    \/ Pull
    \/ DropMlen \/ DropS35 \/ DropNs \/ DropPolyn \/ Raise \/ YieldPair
    \/ ReportStats \/ StatsRaise

Spec == Init /\ [][Next]_vars

(* -------------------------------- main -------------------------------- *)

OutFiles == IF merge THEN {"pe.merged.fq"} ELSE {"pe.r1.fq", "pe.r2.fq"}
\* The file record k of a pair is written to.
OutFile(k) == IF merge THEN "pe.merged.fq" ELSE IF k = 1 THEN "pe.r1.fq" ELSE "pe.r2.fq"

\* The program started from the command line, with any arguments.
InitMain ==
    /\ Config /\ quafmt \in QuaFmts /\ merge \in BOOLEAN
    /\ Fresh
    /\ pc = "args"

\* parser.parse_args(): -Q takes only 33 or 64, else the parser exits.
ParseArgs ==
    /\ pc = "args"
    /\ IF quafmt \in ValidQuaFmts
       THEN pc' = "open" /\ err' = err
       ELSE pc' = "error" /\ err' = "argparse: invalid choice"
    /\ UNCHANGED <<cfgVars, rd, cur, pulled, emitted, totalVars, dropVars, report,
                   fileVars, fnVars>>

\* with open(..., 'w'): the output files are created empty.
OpenOutputs ==
    /\ pc = "open"
    /\ buf' = [f \in OutFiles |-> <<>>]
    /\ disk' = [f \in OutFiles |-> <<>>]
    /\ pc' = "pull"
    /\ UNCHANGED <<cfgVars, rd, cur, pulled, emitted, totalVars, dropVars, report,
                   err, fnVars>>

\* The pair goes to main's loop body.
YieldToMain == Yield("w1")

\* fo.write(text): the text goes to the file object's buffer.
Write(f, text, to) ==
    /\ buf' = [buf EXCEPT ![f] = @ \o text]
    /\ pc' = to
    /\ UNCHANGED <<cfgVars, rd, cur, pulled, emitted, totalVars, dropVars, report,
                   err, disk, fnVars>>

\* fo.flush(): the buffered text goes to the file.
Flush(f, to) ==
    /\ disk' = [disk EXCEPT ![f] = @ \o buf[f]]
    /\ buf' = [buf EXCEPT ![f] = <<>>]
    /\ pc' = to
    /\ UNCHANGED <<cfgVars, rd, cur, pulled, emitted, totalVars, dropVars, report,
                   err, fnVars>>

WriteR1 == pc = "w1" /\ Write(OutFile(1), Join(cur[1]), "n1")
NewlineR1 == pc = "n1" /\ Write(OutFile(1), <<chNL>>, IF merge THEN "w2" ELSE "f1")
FlushR1 == pc = "f1" /\ Flush(OutFile(1), "w2")
WriteR2 == pc = "w2" /\ Write(OutFile(2), Join(cur[2]), "n2")
NewlineR2 == pc = "n2" /\ Write(OutFile(2), <<chNL>>, "f2")
FlushR2 == pc = "f2" /\ Flush(OutFile(2), "pull")

InLoop == pc \in {"pull", "filter", "w1", "n1", "f1", "w2", "n2", "f2"}

\* SIGINT: KeyboardInterrupt is raised between two steps and leaves the with
\* block, which closes the output files; close writes out what is buffered.
KeyboardInterrupt ==
    /\ InLoop
    /\ disk' = [f \in DOMAIN disk |-> disk[f] \o buf[f]]
    /\ buf' = [f \in DOMAIN buf |-> <<>>]
    /\ pc' = "error"
    /\ err' = "KeyboardInterrupt"
    /\ UNCHANGED <<cfgVars, rd, cur, pulled, emitted, totalVars, dropVars, report,
                   fnVars>>

\* SIGKILL: the process ends at once and what is buffered is lost.
Kill ==
    /\ InLoop
    /\ buf' = [f \in DOMAIN buf |-> <<>>]
    /\ pc' = "killed"
    /\ UNCHANGED <<cfgVars, rd, cur, pulled, emitted, totalVars, dropVars, report,
                   err, disk, fnVars>>

NextMain ==
    \/ ParseArgs \/ OpenOutputs
    \/ Pull
    \/ DropMlen \/ DropS35 \/ DropNs \/ DropPolyn \/ Raise \/ YieldToMain
    \/ WriteR1 \/ NewlineR1 \/ FlushR1 \/ WriteR2 \/ NewlineR2 \/ FlushR2
    \/ ReportStats \/ StatsRaise
    \/ KeyboardInterrupt \/ Kill

SpecMain == InitMain /\ [][NextMain]_vars

(* ------------------ the filter predicates on their own ---------------- *)

\* No run of the pipeline: default arguments, no input.
NoRun ==
    /\ quafmt = 33 /\ min_len = 1
    /\ s35 = TRUE /\ ns = TRUE /\ polyn = TRUE /\ merge = FALSE
    /\ flen = [i \in 1..2 |-> 0]
    /\ FreshRun

runVars == <<cfgVars, rd, cur, pulled, emitted, totalVars, dropVars, report,
             err, fileVars>>

\* Quality strings x^a y^b x^c of n characters, x and y the
\* characters around the threshold: they decode to 29 and 30 under offset 33
\* (62, 63) and under offset 64 (93, 94).
QuaInputs(n) ==
    UNION { { Run(xy[1], a) \o Run(xy[2], b) \o Run(xy[1], n - a - b) :
                xy \in {<<62, 63>>, <<63, 62>>, <<93, 94>>, <<94, 93>>},
                b \in 0..(n - a) } :
            a \in 0..n }

InitS35 ==
    /\ NoRun
    /\ \E n \in 0..MaxQuaLen :
          call \in {<<q, f>> : q \in QuaInputs(n), f \in ValidQuaFmts}
    /\ ret = "none"
    /\ pc = "call"

ApplyS35 ==
    /\ pc = "call"
    /\ ret' = is_s35_bad(call[1], call[2])
    /\ pc' = "returned"
    /\ UNCHANGED <<runVars, call>>

SpecS35 == InitS35 /\ [][ApplyS35]_vars

\* Bases, the ambiguous base N and a lowercase base.
SeqChars == {chA, chT, chC, chG, chN, 97}

\* Sequences x^a y^b of n characters.
SeqInputs(n) ==
    { Run(x, a) \o Run(y, n - a) : x \in SeqChars, y \in SeqChars, a \in 0..n }

InitPolyn ==
    /\ NoRun
    /\ \E n \in 0..MaxSeqLen : call \in {<<q>> : q \in SeqInputs(n)}
    /\ ret = "none"
    /\ pc = "call"

ApplyPolyn ==
    /\ pc = "call"
    /\ ret' = is_polyn(call[1])
    /\ pc' = "returned"
    /\ UNCHANGED <<runVars, call>>

SpecPolyn == InitPolyn /\ [][ApplyPolyn]_vars

(* ------------------- what the claims speak about ---------------------- *)

Ended == {"done", "error"}

\* The run is between two loop iterations, or past the loop.
BetweenPairs ==
    \/ pc \in {"pull", "done"}
    \/ pc = "error" /\ err = "ZeroDivisionError in solexa_reads_filter"

\* The pairs whose loop iteration has run to its end.
Completed == IF BetweenPairs THEN pulled ELSE SubSeq(pulled, 1, Len(pulled) - 1)

BasesOf(p) == Len(p[1][2]) + Len(p[2][2])

RECURSIVE SumBases(_)
SumBases(ps) == IF ps = <<>> THEN 0 ELSE BasesOf(Head(ps)) + SumBases(Tail(ps))

DroppedSeq == n_mlen_drop_seq + n_s35_drop_seq + n_ns_drop_seq + n_polyn_drop_seq
DroppedBase == n_mlen_drop_base + n_s35_drop_base + n_ns_drop_base + n_polyn_drop_base

\* The four filters as the specification words them, for one mate r.
MateShort(r) == Len(r[2]) < min_len
MateLowQuality(r) ==
    \/ Len(r[4]) < 35
    \/ Cardinality({i \in 1..35 : r[4][i] - quafmt >= 30}) < 25
MateAmbiguous(r) == \E i \in DOMAIN r[2] : r[2][i] = 78
MateLowComplexity(r) ==
    \E b \in {65, 84, 67, 71} :
        Cardinality({i \in DOMAIN r[2] : r[2][i] = b}) * 100 >= 85 * Len(r[2])

\* The first filter, in the fixed order, that is enabled and that a mate of
\* pair p fails.
FirstFailed(p) ==
    IF MateShort(p[1]) \/ MateShort(p[2]) THEN "mlen"
    ELSE IF s35 /\ (MateLowQuality(p[1]) \/ MateLowQuality(p[2])) THEN "s35"
    ELSE IF ns /\ (MateAmbiguous(p[1]) \/ MateAmbiguous(p[2])) THEN "ns"
    ELSE IF polyn /\ (MateLowComplexity(p[1]) \/ MateLowComplexity(p[2])) THEN "polyn"
    ELSE "none"

PairPasses(p) == FirstFailed(p) = "none"

DropCounters ==
    [mlen  |-> <<n_mlen_drop_seq, n_mlen_drop_base>>,
     s35   |-> <<n_s35_drop_seq, n_s35_drop_base>>,
     ns    |-> <<n_ns_drop_seq, n_ns_drop_base>>,
     polyn |-> <<n_polyn_drop_seq, n_polyn_drop_base>>]

Min(a, b) == IF a <= b THEN a ELSE b
WholeRecords(i) == flen[i] \div 4

(* ------------------------------ claims -------------------------------- *)

\* C1: the counters are conserved.  Every pulled pair is in the totals as soon
\* as it is pulled (two reads, both mates' bases); between two pairs, and at
\* the end, total reads = 2 x emitted pairs + the four dropped-read counters
\* and total bases = the emitted pairs' bases + the four dropped-base
\* counters; while a pair is being filtered it is in the totals and in no
\* other counter.
C1_CountersConserved ==
    /\ n_total_seq = 2 * Len(pulled)
    /\ n_total_base = SumBases(pulled)
    /\ n_total_seq = 2 * Len(emitted) + DroppedSeq + 2 * (Len(pulled) - Len(Completed))
    /\ n_total_base = SumBases(emitted) + DroppedBase
                      + SumBases(SubSeq(pulled, Len(Completed) + 1, Len(pulled)))

\* C1 witness: two pairs processed, one emitted and one dropped for an N.
C1_Witness ==
    /\ pc = "pull" /\ Len(pulled) = 2
    /\ Len(emitted) = 1 /\ n_ns_drop_seq = 2 /\ n_ns_drop_base > 0

\* C2: filtering a pair changes the drop counters of at most one category,
\* the first enabled filter in the order length, s35, Ns, polyN that a mate
\* fails: its reads counter by 2 and its bases counter by both mates' lengths,
\* every later filter's counters unchanged; no other step changes a drop
\* counter.
C2_FirstFailureOnly ==
    [][ LET f == FirstFailed(cur)
            before == DropCounters
            after == DropCounters'
        IN  IF pc = "filter"
            THEN /\ \A g \in DOMAIN before : g # f => after[g] = before[g]
                 /\ f # "none" /\ pc' # "error" =>
                        after[f] = <<before[f][1] + 2, before[f][2] + BasesOf(cur)>>
                 /\ f # "none" /\ pc' = "error" => after[f] = before[f]
            ELSE after = before ]_vars

\* C2 witness: a pair that fails the length filter and the low-complexity
\* filter has been dropped, and only the length counters moved.
C2_Witness ==
    /\ pc = "pull" /\ Len(pulled) = 1 /\ polyn
    /\ MateShort(pulled[1][1]) /\ Len(pulled[1][1][2]) > 0
    /\ MateLowComplexity(pulled[1][1])
    /\ n_mlen_drop_seq = 2 /\ n_mlen_drop_base = BasesOf(pulled[1])
    /\ n_s35_drop_seq = 0 /\ n_ns_drop_seq = 0 /\ n_polyn_drop_seq = 0

\* C3: a run over zero pairs ends normally with its statistics reported, not
\* in a divide-by-zero failure.
C3_EmptyRunReported ==
    (n_total_seq = 0 /\ pc \in Ended) => (pc = "done" /\ report # <<>>)

\* C4: under an offset other than 33 and 64 no pair is pulled, counted or
\* emitted, and the run ends in an error.
C4_InvalidOffsetRejected ==
    quafmt \notin {33, 64} =>
        /\ pulled = <<>> /\ emitted = <<>>
        /\ n_total_seq = 0 /\ n_total_base = 0
        /\ pc # "done"

\* C5: the run ends without error after exactly min(floor(L1/4), floor(L2/4))
\* pairs, and the total-reads counter is twice that.
C5_ShortestStreamWins ==
    /\ Len(pulled) <= Min(WholeRecords(1), WholeRecords(2))
    /\ pc \in Ended =>
          /\ pc = "done"
          /\ Len(pulled) = Min(WholeRecords(1), WholeRecords(2))
          /\ n_total_seq = 2 * Min(WholeRecords(1), WholeRecords(2))

\* C6: the pairs emitted are exactly the pairs, among those whose processing
\* has finished, whose two mates pass the length filter and every enabled
\* filter, in input order, each once and with its records unchanged.
C6_EmittedIsPassingSubsequence ==
    emitted = SelectSeq(Completed, PairPasses)

\* C6 witness: a finished run that emitted two different pairs.
C6_Witness ==
    /\ pc = "done" /\ Len(emitted) = 2 /\ emitted[1] # emitted[2]
    /\ emitted = pulled

\* C9: is_polyn is never evaluated on an empty sequence.
C9_NoPolynOnEmpty ==
    err # "ZeroDivisionError in is_polyn"

\* Text made of whole four-line records, each line ended by a newline.
IsWholeRecords(text) ==
    \/ text = <<>>
    \/ text[Len(text)] = 10 /\ Count(text, 10) % 4 = 0

\* C7: whenever the run is interrupted, every output file holds whole
\* four-line records only, and a pair is written and flushed before the next
\* one is pulled.
C7_OutputsHoldWholeRecords ==
    /\ \A f \in DOMAIN disk : IsWholeRecords(disk[f])
    /\ pc = "pull" => \A f \in DOMAIN buf : buf[f] = <<>>

\* Positions among the first 35 of quality string q that decode to at least
\* 30 under offset f.
HighPositions(q, f) == {i \in 1..35 : q[i] - f >= 30}

\* C8: is_s35_bad(q, offset) reports failure exactly when q has fewer than 35
\* characters or fewer than 25 of its first 35 characters decode to 30 or
\* more; what follows position 35 plays no part.
C8_S35Verdict ==
    pc = "returned" =>
        /\ ret \in {"True", "False"}
        /\ ret = "True" <=>
              \/ Len(call[1]) < 35
              \/ Cardinality(HighPositions(call[1], call[2])) < 25

\* C8 witness: 35 characters, exactly 25 of them decoding to 30 or more under
\* offset 33, pass.
C8_Witness ==
    /\ pc = "returned" /\ ret = "False"
    /\ call[2] = 33 /\ Len(call[1]) = 35
    /\ Cardinality(HighPositions(call[1], 33)) = 25

\* C10: is_polyn(s), s not empty, reports failure exactly when one of the
\* bases A, T, C, G makes up at least 85 hundredths of s; any other character
\* counts for the length only.
C10_PolynVerdict ==
    (pc = "returned" /\ Len(call[1]) > 0) =>
        /\ ret \in {"True", "False"}
        /\ ret = "True" <=>
              \E b \in {65, 84, 67, 71} :
                  Cardinality({i \in DOMAIN call[1] : call[1][i] = b}) * 100
                      >= 85 * Len(call[1])

\* C10 witness: 17 'A' among 20 characters fail.
C10_Witness ==
    /\ pc = "returned" /\ ret = "True"
    /\ Len(call[1]) = 20
    /\ Cardinality({i \in DOMAIN call[1] : call[1][i] = 65}) = 17

=============================================================================
